---- MODULE Spec2Model ----
(***************************************************************************)
(* A model of amethyst_input's InputEvent<T> (src/amethyst_input/src/      *)
(* event.rs): the nineteen variants of the enum, the equality, duplication *)
(* and (de)serialization its derives generate, and a client that builds    *)
(* events and applies those operations to them.                            *)
(*                                                                         *)
(* Values of the Copy field types (u32, f32, f64, char and the fieldless   *)
(* enums) are stored inline in an event.  A value of a binding type        *)
(* (T::Axis, T::Action) owns data of its own, so an event stores the       *)
(* address of a heap cell and the cell holds the data: sharing a cell      *)
(* between two events is then a state the model can express.               *)
(***************************************************************************)
EXTENDS Integers, Sequences, FiniteSets, TLC

VARIABLES
    scenario,   \* what the client does with the events it builds
    events,     \* slot -> the event in it (NoEvent while empty); slots a, b, c
                \* take the events the client builds, slot d the duplicate of a
    given,      \* slot -> the variant and field values handed to the constructor
    heap,       \* address -> data of a binding value (T::Axis / T::Action)
    cmp,        \* results of ==, a function on pairs of slots, once compared
    nmut,       \* number of changes made to the duplicate in slot d
    wire,       \* encoded data on its way to the deserializer
    ntamper,    \* number of changes made to the encoded data
    decoded     \* the deserializer's result

vars == <<scenario, events, given, heap, cmp, nmut, wire, ntamper, decoded>>

-----------------------------------------------------------------------------
(* Bounds and sample values of the field types.                            *)

MaxMutations == 2
MaxTamper == 1

\* a u32 is held as two 16-bit limbs, 2^16 * hi + lo (2^32 - 1 is beyond the
\* integers the model checker computes with)
LimbMax == 65535
U32(hi, lo) == [hi |-> hi, lo |-> lo]
U32Max == U32(LimbMax, LimbMax)

Whichs == {U32(0, 0), U32Max}
Scancodes == {U32(0, 17), U32Max}

NaN == "NaN"
F64s == {NaN, "0.0", "-0.0", "1.5"}
F32s == {NaN, "0.0", "1.5"}

Chars == {"a", "W"}
VirtualKeyCodes == {"W", "A"}
MouseButtons == {"Left", "Right"}
Buttons == {"Key(W)", "Mouse(Left)"}
ScrollDirections == {"ScrollUp", "ScrollDown"}
ControllerAxes == {"LeftX", "RightY"}
ControllerButtons == {"A", "Start"}
\* the binding's vocabulary; "LeftX" is also the name of a ControllerAxis
AxisNames == {"LeftX", "Throttle"}
ActionNames == {"Jump", "Fire"}

Slots == {"a", "b", "c", "d"}

-----------------------------------------------------------------------------
(* The enum: variants in declaration order, their fields and field types.  *)

VariantNames ==
    << "KeyPressed", "KeyReleased", "KeyTyped",
       "MouseButtonPressed", "MouseButtonReleased",
       "ButtonPressed", "ButtonReleased",
       "CursorMoved", "MouseMoved", "MouseWheelMoved",
       "AxisMoved", "ControllerAxisMoved",
       "ControllerButtonPressed", "ControllerButtonReleased",
       "ControllerConnected", "ControllerDisconnected",
       "ActionPressed", "ActionReleased", "ActionWheelMoved" >>

Variants == {VariantNames[i] : i \in DOMAIN VariantNames}

\* a tuple variant's only field is named f0 (Rust's .0)
FieldNames(v) ==
    CASE v \in {"KeyPressed", "KeyReleased"} -> <<"key_code", "scancode">>
      [] v \in {"CursorMoved", "MouseMoved"} -> <<"delta_x", "delta_y">>
      [] v = "AxisMoved" -> <<"axis", "value">>
      [] v = "ControllerAxisMoved" -> <<"which", "axis", "value">>
      [] v \in {"ControllerButtonPressed", "ControllerButtonReleased"} ->
            <<"which", "button">>
      [] v \in {"ControllerConnected", "ControllerDisconnected"} -> <<"which">>
      [] OTHER -> <<"f0">>

FieldTypes(v) ==
    CASE v \in {"KeyPressed", "KeyReleased"} -> <<"VirtualKeyCode", "u32">>
      [] v = "KeyTyped" -> <<"char">>
      [] v \in {"MouseButtonPressed", "MouseButtonReleased"} -> <<"MouseButton">>
      [] v \in {"ButtonPressed", "ButtonReleased"} -> <<"Button">>
      [] v = "CursorMoved" -> <<"f64", "f64">>
      [] v = "MouseMoved" -> <<"f32", "f32">>
      [] v = "MouseWheelMoved" -> <<"ScrollDirection">>
      [] v = "AxisMoved" -> <<"Axis", "f64">>
      [] v = "ControllerAxisMoved" -> <<"u32", "ControllerAxis", "f32">>
      [] v \in {"ControllerButtonPressed", "ControllerButtonReleased"} ->
            <<"u32", "ControllerButton">>
      [] v \in {"ControllerConnected", "ControllerDisconnected"} -> <<"u32">>
      [] v \in {"ActionPressed", "ActionReleased", "ActionWheelMoved"} ->
            <<"Action">>

IsStructVariant(v) == FieldNames(v) # <<"f0">>

\* the traits the derive attributes implement for InputEvent<T>
DerivedTraits == {"PartialEq", "Serialize", "Deserialize", "Debug", "Clone"}

BindingTypeNames == {"Axis", "Action"}
FloatTypeNames == {"f32", "f64"}

\* the values a field of type t takes in the model
ValuesOf(t, v) ==
    CASE t = "u32" -> (IF v \in {"KeyPressed", "KeyReleased"} THEN Scancodes ELSE Whichs)
      [] t = "f64" -> F64s
      [] t = "f32" -> F32s
      [] t = "char" -> Chars
      [] t = "VirtualKeyCode" -> VirtualKeyCodes
      [] t = "MouseButton" -> MouseButtons
      [] t = "Button" -> Buttons
      [] t = "ScrollDirection" -> ScrollDirections
      [] t = "ControllerAxis" -> ControllerAxes
      [] t = "ControllerButton" -> ControllerButtons
      [] t = "Axis" -> AxisNames
      [] t = "Action" -> ActionNames

ArgSet(v) ==
    LET ts == FieldTypes(v) IN
    CASE Len(ts) = 1 -> {<<x>> : x \in ValuesOf(ts[1], v)}
      [] Len(ts) = 2 ->
            {<<x, y>> : x \in ValuesOf(ts[1], v), y \in ValuesOf(ts[2], v)}
      [] Len(ts) = 3 ->
            {<<x, y, z>> : x \in ValuesOf(ts[1], v), y \in ValuesOf(ts[2], v),
                           z \in ValuesOf(ts[3], v)}

NoEvent == [tag |-> "NoEvent"]

-----------------------------------------------------------------------------
(* Binding values.  The binding type supplies their operations; an event   *)
(* only calls them.                                                        *)

\* a new binding value holding data s: its address is the next free cell
NewBinding(h, s) == [addr |-> Len(h) + 1, heap |-> Append(h, s)]

\* T::Axis / T::Action : Clone, an independent copy of the data
CloneBinding(h, p) == NewBinding(h, h[p])

\* T::Axis / T::Action : Eq, by the data
BindingEq(h, p, q) == h[p] = h[q]

-----------------------------------------------------------------------------
(* Construction: variant selection plus field population (the enum's       *)
(* variants, fields in declaration order).                                 *)

\* Build with a copy-and-paste slip: KeyReleased built under KeyPressed's tag
BuildWrongTag(v, args) ==
    LET names == FieldNames(v)
    IN [f \in {"tag"} \cup {names[i] : i \in DOMAIN names} |->
           IF f = "tag" THEN (IF v = "KeyReleased" THEN "KeyPressed" ELSE v)
           ELSE args[CHOOSE i \in DOMAIN names : names[i] = f]]

\* Build with a range check on a u32 in first place: the largest id is refused
BuildRangeChecked(v, args) ==
    LET names == FieldNames(v)
    IN IF FieldTypes(v)[1] = "u32" /\ args[1] = U32Max
       THEN [tag |-> "InvalidControllerId"]
       ELSE [f \in {"tag"} \cup {names[i] : i \in DOMAIN names} |->
                IF f = "tag" THEN v
                ELSE args[CHOOSE i \in DOMAIN names : names[i] = f]]

Build(v, args) ==
    CASE v = "KeyPressed" ->
            [tag |-> "KeyPressed", key_code |-> args[1], scancode |-> args[2]]
      [] v = "KeyReleased" ->
            [tag |-> "KeyReleased", key_code |-> args[1], scancode |-> args[2]]
      [] v = "KeyTyped" -> [tag |-> "KeyTyped", f0 |-> args[1]]
      [] v = "MouseButtonPressed" -> [tag |-> "MouseButtonPressed", f0 |-> args[1]]
      [] v = "MouseButtonReleased" -> [tag |-> "MouseButtonReleased", f0 |-> args[1]]
      [] v = "ButtonPressed" -> [tag |-> "ButtonPressed", f0 |-> args[1]]
      [] v = "ButtonReleased" -> [tag |-> "ButtonReleased", f0 |-> args[1]]
      [] v = "CursorMoved" ->
            [tag |-> "CursorMoved", delta_x |-> args[1], delta_y |-> args[2]]
      [] v = "MouseMoved" ->
            [tag |-> "MouseMoved", delta_x |-> args[1], delta_y |-> args[2]]
      [] v = "MouseWheelMoved" -> [tag |-> "MouseWheelMoved", f0 |-> args[1]]
      [] v = "AxisMoved" -> [tag |-> "AxisMoved", axis |-> args[1], value |-> args[2]]
      [] v = "ControllerAxisMoved" ->
            [tag |-> "ControllerAxisMoved", which |-> args[1], axis |-> args[2],
             value |-> args[3]]
      [] v = "ControllerButtonPressed" ->
            [tag |-> "ControllerButtonPressed", which |-> args[1], button |-> args[2]]
      [] v = "ControllerButtonReleased" ->
            [tag |-> "ControllerButtonReleased", which |-> args[1], button |-> args[2]]
      [] v = "ControllerConnected" -> [tag |-> "ControllerConnected", which |-> args[1]]
      [] v = "ControllerDisconnected" ->
            [tag |-> "ControllerDisconnected", which |-> args[1]]
      [] v = "ActionPressed" -> [tag |-> "ActionPressed", f0 |-> args[1]]
      [] v = "ActionReleased" -> [tag |-> "ActionReleased", f0 |-> args[1]]
      [] v = "ActionWheelMoved" -> [tag |-> "ActionWheelMoved", f0 |-> args[1]]

\* the field of event e that holds a binding value, "" when it has none
BindingField(e) ==
    CASE e.tag = "AxisMoved" -> "axis"
      [] e.tag \in {"ActionPressed", "ActionReleased", "ActionWheelMoved"} -> "f0"
      [] OTHER -> ""

HasBinding(e) == BindingField(e) # ""

\* what a match on e reads: the tag and the fields, a binding value by its data
Read(e, h) ==
    CASE e.tag = "AxisMoved" -> [e EXCEPT !.axis = h[e.axis]]
      [] e.tag \in {"ActionPressed", "ActionReleased", "ActionWheelMoved"} ->
            [e EXCEPT !.f0 = h[e.f0]]
      [] OTHER -> e

-----------------------------------------------------------------------------
(* #[derive(PartialEq)]: equal discriminants, then the fields of the       *)
(* variant compared in order with each field type's ==.                    *)

\* f32 / f64 == : NaN equals nothing, -0.0 equals 0.0
FloatCanon(x) == IF x = "-0.0" THEN "0.0" ELSE x
FloatEq(x, y) == x # NaN /\ y # NaN /\ FloatCanon(x) = FloatCanon(y)

\* equality of two values of field type t, stated apart from EventEq
FieldValueEq(t, u, v, h) ==
    CASE t \in FloatTypeNames ->
            u # NaN /\ v # NaN /\ (u = v \/ {u, v} = {"0.0", "-0.0"})
      [] t \in BindingTypeNames -> h[u] = h[v]
      [] OTHER -> u = v

SameTagAndFields(x, y, h) ==
    /\ x.tag = y.tag
    /\ \A i \in DOMAIN FieldNames(x.tag) :
        FieldValueEq(FieldTypes(x.tag)[i], x[FieldNames(x.tag)[i]],
                     y[FieldNames(x.tag)[i]], h)

\* EventEq that compares the discriminants only
EventEqDiscriminant(x, y, h) == x.tag = y.tag

\* EventEq that compares the payloads and not the discriminants
EventEqPayloadOnly(x, y, h) ==
    /\ FieldTypes(x.tag) = FieldTypes(y.tag)
    /\ \A i \in DOMAIN FieldNames(x.tag) :
        FieldValueEq(FieldTypes(x.tag)[i], x[FieldNames(x.tag)[i]],
                     y[FieldNames(y.tag)[i]], h)

\* EventEq that compares binding values by identity, not through their own ==
EventEqByAddress(x, y, h) ==
    /\ x.tag = y.tag
    /\ \A i \in DOMAIN FieldNames(x.tag) :
        LET t == FieldTypes(x.tag)[i]
            f == FieldNames(x.tag)[i]
        IN IF t \in BindingTypeNames THEN x[f] = y[f]
           ELSE FieldValueEq(t, x[f], y[f], h)

EventEq(x, y, h) ==
    /\ x.tag = y.tag
    /\ CASE x.tag \in {"KeyPressed", "KeyReleased"} ->
                x.key_code = y.key_code /\ x.scancode = y.scancode
         [] x.tag \in {"KeyTyped", "MouseButtonPressed", "MouseButtonReleased",
                       "ButtonPressed", "ButtonReleased", "MouseWheelMoved"} ->
                x.f0 = y.f0
         [] x.tag \in {"CursorMoved", "MouseMoved"} ->
                FloatEq(x.delta_x, y.delta_x) /\ FloatEq(x.delta_y, y.delta_y)
         [] x.tag = "AxisMoved" ->
                BindingEq(h, x.axis, y.axis) /\ FloatEq(x.value, y.value)
         [] x.tag = "ControllerAxisMoved" ->
                x.which = y.which /\ x.axis = y.axis /\ FloatEq(x.value, y.value)
         [] x.tag \in {"ControllerButtonPressed", "ControllerButtonReleased"} ->
                x.which = y.which /\ x.button = y.button
         [] x.tag \in {"ControllerConnected", "ControllerDisconnected"} ->
                x.which = y.which
         [] x.tag \in {"ActionPressed", "ActionReleased", "ActionWheelMoved"} ->
                BindingEq(h, x.f0, y.f0)

-----------------------------------------------------------------------------
(* #[derivative(Clone(bound = ""))]: the same variant, each field cloned   *)
(* with its own type's Clone (a copy for the Copy types).                  *)

\* the fields of e in declaration order
FieldsOf(e) == [i \in DOMAIN FieldNames(e.tag) |-> e[FieldNames(e.tag)[i]]]

\* CloneEvent that copies the event bit for bit: the binding value is shared
CloneEventShallow(e, h) == [ev |-> e, heap |-> h]

\* CloneEvent that gives the duplicate a new, empty binding value
CloneEventFresh(e, h) ==
    IF HasBinding(e)
    THEN LET c == NewBinding(h, "")
         IN [ev |-> Build(e.tag, [FieldsOf(e) EXCEPT ![1] = c.addr]), heap |-> c.heap]
    ELSE [ev |-> Build(e.tag, FieldsOf(e)), heap |-> h]

CloneEvent(e, h) ==
    IF HasBinding(e)
    THEN LET c == CloneBinding(h, e[BindingField(e)])
         IN [ev |-> Build(e.tag, [FieldsOf(e) EXCEPT ![1] = c.addr]), heap |-> c.heap]
    ELSE [ev |-> Build(e.tag, FieldsOf(e)), heap |-> h]

-----------------------------------------------------------------------------
(* #[derive(Serialize)]: a struct variant or a newtype variant of          *)
(* "InputEvent", with the variant's index and name and the fields, each    *)
(* serialized by its own type, in declaration order.                       *)

VariantIndex(v) == CHOOSE i \in DOMAIN VariantNames : VariantNames[i] = v

\* A serialized field value, with the type it was written as.  A format that
\* does not record types reads a value as the type the variant expects; data
\* of one variant read under the tag of another is represented here with the
\* types it was written with.
Token(t, x) == [t |-> t, val |-> x]

Serialize(e, h) ==
    LET r == Read(e, h)
        names == FieldNames(e.tag)
        types == FieldTypes(e.tag)
    IN [name |-> "InputEvent",
        index |-> VariantIndex(e.tag) - 1,
        variant |-> e.tag,
        fields |-> [i \in DOMAIN names |->
                       [key |-> IF IsStructVariant(e.tag) THEN names[i] ELSE "",
                        tok |-> Token(types[i], r[names[i]])]]]

\* The two kinds of format.  A human-readable one writes the variant and the
\* fields of a struct variant by name; a compact one writes the variant's
\* index and the fields by position.
Encode(fmt, d) ==
    IF fmt = "text"
    THEN [fmt |-> "text", variant |-> d.variant, index |-> 0, fields |-> d.fields]
    ELSE [fmt |-> "binary", variant |-> "", index |-> d.index,
          fields |-> [i \in DOMAIN d.fields |-> [key |-> "", tok |-> d.fields[i].tok]]]

-----------------------------------------------------------------------------
(* #[derive(Deserialize)].                                                 *)

Err(msg, h) == [ok |-> FALSE, err |-> msg, val |-> NoEvent, heap |-> h]
Ok(x, h) == [ok |-> TRUE, err |-> "", val |-> x, heap |-> h]

EnumTypeNames ==
    {"VirtualKeyCode", "MouseButton", "Button", "ScrollDirection",
     "ControllerAxis", "ControllerButton"}

EnumVariants(t) ==
    CASE t = "VirtualKeyCode" -> VirtualKeyCodes
      [] t = "MouseButton" -> MouseButtons
      [] t = "Button" -> Buttons
      [] t = "ScrollDirection" -> ScrollDirections
      [] t = "ControllerAxis" -> ControllerAxes
      [] t = "ControllerButton" -> ControllerButtons

\* a token that the deserializer of field type t accepts
WellTyped(t, tok) ==
    /\ tok.t = t
    /\ t = "u32" => tok.val.hi <= LimbMax /\ tok.val.lo <= LimbMax
    /\ t \in EnumTypeNames => tok.val \in EnumVariants(t)

\* one field: the field type's own Deserialize
DecodeField(t, tok, h) ==
    IF tok.t # t THEN Err("invalid type", h)
    ELSE IF ~WellTyped(t, tok)
         THEN Err(IF t = "u32" THEN "invalid value" ELSE "unknown variant", h)
    ELSE IF t \in BindingTypeNames
         THEN LET b == NewBinding(h, tok.val) IN Ok(b.addr, b.heap)
    ELSE Ok(tok.val, h)

\* the index of the field of v named key, 0 when v has none
FieldIndex(v, key) ==
    IF \E i \in DOMAIN FieldNames(v) : FieldNames(v)[i] = key
    THEN CHOOSE i \in DOMAIN FieldNames(v) : FieldNames(v)[i] = key
    ELSE 0

Unset == [set |-> FALSE, val |-> 0]

\* a struct variant read as a map: entries in any order, an entry with an
\* unknown key skipped, a repeated or an absent field an error
RECURSIVE VisitMap(_, _, _, _, _)
VisitMap(v, entries, i, acc, h) ==
    IF i > Len(entries)
    THEN IF \E k \in DOMAIN acc : ~acc[k].set
         THEN Err("missing field", h)
         ELSE Ok(Build(v, [k \in DOMAIN acc |-> acc[k].val]), h)
    ELSE LET k == FieldIndex(v, entries[i].key) IN
         IF k = 0 THEN VisitMap(v, entries, i + 1, acc, h)
         ELSE IF acc[k].set THEN Err("duplicate field", h)
         ELSE LET d == DecodeField(FieldTypes(v)[k], entries[i].tok, h) IN
              IF ~d.ok THEN d
              ELSE VisitMap(v, entries, i + 1,
                            [acc EXCEPT ![k] = [set |-> TRUE, val |-> d.val]], d.heap)

\* the fields read by position: the first Len(FieldTypes(v)) tokens
RECURSIVE VisitSeq(_, _, _, _, _)
VisitSeq(v, entries, i, acc, h) ==
    IF i > Len(FieldTypes(v)) THEN Ok(Build(v, acc), h)
    ELSE IF i > Len(entries) THEN Err("invalid length", h)
    ELSE LET d == DecodeField(FieldTypes(v)[i], entries[i].tok, h) IN
         IF ~d.ok THEN d
         ELSE VisitSeq(v, entries, i + 1, Append(acc, d.val), d.heap)

VisitVariant(v, entries, byName, h) ==
    LET r == IF byName /\ IsStructVariant(v)
             THEN VisitMap(v, entries, 1, [k \in DOMAIN FieldNames(v) |-> Unset], h)
             ELSE VisitSeq(v, entries, 1, <<>>, h)
    IN IF r.ok THEN r ELSE Err(r.err, h)

\* Deserialize that takes the variant index as counted from one
DeserializeOneBased(w, h) ==
    IF w.fmt = "text"
    THEN IF w.variant \notin Variants THEN Err("unknown variant", h)
         ELSE VisitVariant(w.variant, w.fields, TRUE, h)
    ELSE IF w.index \notin 1 .. Len(VariantNames)
         THEN Err("invalid variant index", h)
         ELSE VisitVariant(VariantNames[w.index], w.fields, FALSE, h)

\* Deserialize that falls back to a default event where it should fail
DeserializeOrDefault(w, h) ==
    LET r == IF w.fmt = "text"
             THEN IF w.variant \notin Variants THEN Err("unknown variant", h)
                  ELSE VisitVariant(w.variant, w.fields, TRUE, h)
             ELSE IF w.index \notin 0 .. (Len(VariantNames) - 1)
                  THEN Err("invalid variant index", h)
                  ELSE VisitVariant(VariantNames[w.index + 1], w.fields, FALSE, h)
    IN IF r.ok THEN r ELSE Ok(Build("KeyTyped", <<"a">>), h)

Deserialize(w, h) ==
    IF w.fmt = "text"
    THEN IF w.variant \notin Variants THEN Err("unknown variant", h)
         ELSE VisitVariant(w.variant, w.fields, TRUE, h)
    ELSE IF w.index \notin 0 .. (Len(VariantNames) - 1)
         THEN Err("invalid variant index", h)
         ELSE VisitVariant(VariantNames[w.index + 1], w.fields, FALSE, h)

-----------------------------------------------------------------------------
(* The client.                                                             *)

NoPairs == [p \in {} |-> FALSE]
NoArgs == [variant |-> "", args |-> <<>>]

\* how many events the client builds before it uses them
Capacity(s) ==
    CASE s = "compare" -> {"a", "b"}
      [] s = "compare3" -> {"a", "b", "c"}
      [] OTHER -> {"a"}

NextSlot == IF events["a"] = NoEvent THEN "a"
            ELSE IF events["b"] = NoEvent THEN "b" ELSE "c"

Constructed == {s \in Slots : given[s] # NoArgs}
Present == {s \in Slots : events[s] # NoEvent}

Untouched ==
    cmp = NoPairs /\ events["d"] = NoEvent /\ wire = NoEvent /\ decoded = NoEvent

InitWith(ss) ==
    /\ scenario \in ss
    /\ events = [s \in Slots |-> NoEvent]
    /\ given = [s \in Slots |-> NoArgs]
    /\ heap = <<>>
    /\ cmp = NoPairs
    /\ nmut = 0
    /\ wire = NoEvent
    /\ ntamper = 0
    /\ decoded = NoEvent

Init == InitWith({"compare", "duplicate", "serialize"})

\* the client makes the field values (a binding value on the heap) and
\* moves them into a new event
Construct ==
    /\ Untouched
    /\ Constructed # Capacity(scenario)
    /\ \E v \in Variants : \E args \in ArgSet(v) :
        LET s == NextSlot
            ts == FieldTypes(v)
            owned == IF ts[1] \in BindingTypeNames
                     THEN NewBinding(heap, args[1])
                     ELSE [addr |-> 0, heap |-> heap]
            moved == IF ts[1] \in BindingTypeNames
                     THEN [args EXCEPT ![1] = owned.addr]
                     ELSE args
        IN /\ events' = [events EXCEPT ![s] = Build(v, moved)]
           /\ given' = [given EXCEPT ![s] = [variant |-> v, args |-> args]]
           /\ heap' = owned.heap
    /\ UNCHANGED <<scenario, cmp, nmut, wire, ntamper, decoded>>

\* x == y for every pair of the events at hand
CompareAll ==
    /\ \/ scenario \in {"compare", "compare3"} /\ Constructed = Capacity(scenario)
       \/ scenario = "duplicate" /\ events["d"] # NoEvent
    /\ cmp = NoPairs
    /\ cmp' = [p \in Present \X Present |-> EventEq(events[p[1]], events[p[2]], heap)]
    /\ UNCHANGED <<scenario, events, given, heap, nmut, wire, ntamper, decoded>>

\* let mut d = a.clone()
Duplicate ==
    /\ scenario = "duplicate"
    /\ events["a"] # NoEvent
    /\ events["d"] = NoEvent
    /\ LET c == CloneEvent(events["a"], heap)
       IN events' = [events EXCEPT !["d"] = c.ev] /\ heap' = c.heap
    /\ UNCHANGED <<scenario, given, cmp, nmut, wire, ntamper, decoded>>

\* the client changes one field of the duplicate through a match on it; a
\* binding value is changed in place, in the data it owns
MutateDuplicate ==
    /\ events["d"] # NoEvent
    /\ cmp = NoPairs
    /\ nmut < MaxMutations
    /\ LET d == events["d"] IN
       \E i \in DOMAIN FieldNames(d.tag) :
        LET f == FieldNames(d.tag)[i]
            t == FieldTypes(d.tag)[i]
        IN \E x \in ValuesOf(t, d.tag) :
            IF t \in BindingTypeNames
            THEN /\ heap[d[f]] # x
                 /\ heap' = [heap EXCEPT ![d[f]] = x]
                 /\ events' = events
            ELSE /\ d[f] # x
                 /\ events' = [events EXCEPT !["d"][f] = x]
                 /\ heap' = heap
    /\ nmut' = nmut + 1
    /\ UNCHANGED <<scenario, given, cmp, wire, ntamper, decoded>>

\* events["a"] written out in one of the two kinds of format
SerializeEvent ==
    /\ scenario = "serialize"
    /\ events["a"] # NoEvent
    /\ wire = NoEvent
    /\ \E fmt \in {"text", "binary"} :
        wire' = Encode(fmt, Serialize(events["a"], heap))
    /\ UNCHANGED <<scenario, events, given, heap, cmp, nmut, ntamper, decoded>>

\* Encoded data need not come from SerializeEvent unchanged: a file edited by
\* hand, a recording cut short, a peer of another version.
CanTamper == wire # NoEvent /\ decoded = NoEvent /\ ntamper < MaxTamper

Tampered(w) ==
    /\ wire' = w
    /\ ntamper' = ntamper + 1
    /\ UNCHANGED <<scenario, events, given, heap, cmp, nmut, decoded>>

\* another variant tag, known or unknown
TamperTag ==
    /\ CanTamper
    /\ IF wire.fmt = "text"
       THEN \E v \in (Variants \cup {"Bogus"}) \ {wire.variant} :
                Tampered([wire EXCEPT !.variant = v])
       ELSE \E n \in (0 .. Len(VariantNames)) \ {wire.index} :
                Tampered([wire EXCEPT !.index = n])

\* a field left out
TamperDrop ==
    /\ CanTamper
    /\ \E i \in DOMAIN wire.fields :
        Tampered([wire EXCEPT !.fields =
            [j \in 1 .. (Len(wire.fields) - 1) |->
                IF j < i THEN wire.fields[j] ELSE wire.fields[j + 1]]])

\* a field holding a value of another type (a self-describing format only)
TamperType ==
    /\ CanTamper
    /\ wire.fmt = "text"
    /\ \E i \in DOMAIN wire.fields :
        Tampered([wire EXCEPT !.fields[i].tok = Token("unit", "")])

\* a number too large for a u32, or a name that is no variant of the field's enum
TamperValue ==
    /\ CanTamper
    /\ \E i \in DOMAIN wire.fields :
        LET t == wire.fields[i].tok.t IN
        \/ /\ t = "u32"
           /\ wire.fmt = "text"
           /\ Tampered([wire EXCEPT !.fields[i].tok.val = U32(LimbMax + 1, 0)])
        \/ /\ t \in EnumTypeNames
           /\ Tampered([wire EXCEPT !.fields[i].tok.val = "Bogus"])

\* a field the variant does not have, or a field given twice
TamperExtra ==
    /\ CanTamper
    /\ wire.fmt = "text"
    /\ \/ Tampered([wire EXCEPT !.fields =
                        Append(@, [key |-> "extra", tok |-> Token("unit", "")])])
       \/ \E i \in DOMAIN wire.fields :
            /\ wire.fields[i].key # ""
            /\ Tampered([wire EXCEPT !.fields = Append(@, wire.fields[i])])

\* the data read back, and the result compared with the event written
DeserializeEvent ==
    /\ wire # NoEvent
    /\ decoded = NoEvent
    /\ LET r == Deserialize(wire, heap)
       IN /\ decoded' = [ok |-> r.ok, err |-> r.err, val |-> r.val,
                          eq |-> r.ok /\ EventEq(r.val, events["a"], r.heap)]
          /\ heap' = r.heap
    /\ UNCHANGED <<scenario, events, given, cmp, nmut, wire, ntamper>>

Next ==
    \/ Construct
    \/ CompareAll
    \/ Duplicate
    \/ MutateDuplicate
    \/ SerializeEvent
    \/ TamperTag
    \/ TamperDrop
    \/ TamperType
    \/ TamperValue
    \/ TamperExtra
    \/ DeserializeEvent

Spec == Init /\ [][Next]_vars

\* the client that also builds three events and compares them
Init3 == InitWith({"compare", "compare3", "duplicate", "serialize"})

Spec3 == Init3 /\ [][Next]_vars

-----------------------------------------------------------------------------
(* Properties.                                                             *)

\* e has a float field that is NaN
HasNaN(e) ==
    \E i \in DOMAIN FieldTypes(e.tag) :
        FieldTypes(e.tag)[i] \in FloatTypeNames /\ e[FieldNames(e.tag)[i]] = NaN

Compared == cmp # NoPairs
ComparedSlots == {p[1] : p \in DOMAIN cmp}

\* C1: a == b holds exactly when a and b have the same variant tag and every
\* field of a equals the corresponding field of b (by the field type's ==).
EqualIffSameTagAndFields ==
    Compared =>
        \A p \in DOMAIN cmp :
            cmp[p] <=> SameTagAndFields(events[p[1]], events[p[2]], heap)

\* C1 witness: MouseWheelMoved(ScrollUp) compared with MouseWheelMoved(ScrollDown)
WheelUpDownCompared ==
    /\ Compared
    /\ events["a"] = Build("MouseWheelMoved", <<"ScrollUp">>)
    /\ events["b"] = Build("MouseWheelMoved", <<"ScrollDown">>)
    /\ ~cmp[<<"a", "b">>]

\* C5: events of different variants are never equal, whatever their fields.
DifferentVariantsNeverEqual ==
    Compared =>
        \A p \in DOMAIN cmp :
            events[p[1]].tag # events[p[2]].tag => ~cmp[p]

\* C5 witness: AxisMoved and ControllerAxisMoved with the same axis name and
\* the same value, compared both ways
AxisChannelsCompared ==
    /\ Compared
    /\ events["a"].tag = "AxisMoved"
    /\ events["b"].tag = "ControllerAxisMoved"
    /\ heap[events["a"].axis] = events["b"].axis
    /\ events["a"].value = "1.5"
    /\ events["b"].value = "1.5"
    /\ ~cmp[<<"a", "b">>]
    /\ ~cmp[<<"b", "a">>]

\* C6: an event built with variant V and a field assignment has tag V, a
\* variant of the enum, reads back the values assigned, and has the fields of
\* V and no others.
ConstructReadBack ==
    \A s \in Constructed :
        LET r == Read(events[s], heap)
            g == given[s]
            names == FieldNames(g.variant)
        IN /\ r.tag = g.variant
           /\ r.tag \in Variants
           /\ DOMAIN r = {"tag"} \cup {names[i] : i \in DOMAIN names}
           /\ \A i \in DOMAIN names : r[names[i]] = g.args[i]

\* C6 witness: a KeyReleased event has been built
KeyReleasedBuilt ==
    /\ given["a"] = [variant |-> "KeyReleased", args |-> <<"W", U32(0, 17)>>]
    /\ events["a"].scancode = U32(0, 17)

\* C7: an event has no field beyond those of its variant, so two events built
\* from the same variant and values at different places of a sequence are the
\* same value; ControllerConnected{n}, ControllerDisconnected{n},
\* ControllerConnected{n} gives two equal Connected events, both unequal to
\* the Disconnected one.
ValueIndependentOfPosition ==
    /\ \A s, r \in Constructed :
        (given[s].variant = given[r].variant /\ given[s].args = given[r].args)
            => Read(events[s], heap) = Read(events[r], heap)
    /\ ( /\ Compared
         /\ scenario = "compare3"
         /\ events["a"].tag = "ControllerConnected"
         /\ events["b"].tag = "ControllerDisconnected"
         /\ events["c"].tag = "ControllerConnected"
         /\ events["b"].which = events["a"].which
         /\ events["c"].which = events["a"].which )
       => /\ cmp[<<"a", "c">>] /\ cmp[<<"c", "a">>]
          /\ ~cmp[<<"a", "b">>] /\ ~cmp[<<"b", "a">>]
          /\ ~cmp[<<"c", "b">>] /\ ~cmp[<<"b", "c">>]
          /\ DOMAIN events["a"] = {"tag", "which"}
          /\ DOMAIN events["c"] = {"tag", "which"}

\* C7 witness: connect, disconnect, reconnect with the same id, compared
ControllerReconnected ==
    /\ Compared
    /\ events["a"] = Build("ControllerConnected", <<U32Max>>)
    /\ events["b"] = Build("ControllerDisconnected", <<U32Max>>)
    /\ events["c"] = Build("ControllerConnected", <<U32Max>>)
    /\ cmp[<<"a", "c">>]

\* C8: construction succeeds for every variant and every value of its field
\* types, with no range check, and changes nothing else: not the events built
\* before, not the data of their binding values, not any other state.
ConstructionInfallibleAndPure ==
    /\ [](\A v \in Variants : \A args \in ArgSet(v) : Build(v, args).tag = v)
    /\ [][\A s \in Slots :
            (given[s] = NoArgs /\ given'[s] # NoArgs) =>
                /\ events'[s].tag = given'[s].variant
                /\ \A r \in Slots \ {s} :
                    events'[r] = events[r] /\ given'[r] = given[r]
                /\ \A p \in DOMAIN heap : heap'[p] = heap[p]
                /\ UNCHANGED <<scenario, cmp, nmut, wire, ntamper, decoded>>]_vars

\* C8 witness: controller events with the largest and the smallest id, the
\* second built after the first, which still stands
ExtremeIdsBuilt ==
    /\ events["a"] = Build("ControllerConnected", <<U32Max>>)
    /\ events["b"] = Build("ControllerButtonPressed", <<U32(0, 0), "Start">>)

\* C4: the duplicate has the tag and the fields of the original, and no later
\* change to the duplicate, the data of its binding value included, changes
\* what the original reads as.
DuplicateIndependent ==
    /\ []((events["d"] # NoEvent /\ nmut = 0) =>
            Read(events["d"], heap) = Read(events["a"], heap))
    /\ [][events["d"] # NoEvent =>
            Read(events["a"], heap)' = Read(events["a"], heap)]_vars

\* C4 witness: the data of the duplicate's binding value was changed and now
\* differs from the original's
DuplicateBindingChanged ==
    /\ events["d"] # NoEvent
    /\ nmut > 0
    /\ events["d"].tag = "ActionPressed"
    /\ heap[events["d"].f0] # heap[events["a"].f0]

\* a variant tag that is unknown, or a field of the variant the data claims
\* that is absent or holds a value its type does not accept
Malformed(w) ==
    LET text == w.fmt = "text"
        known == IF text THEN w.variant \in Variants
                 ELSE w.index \in 0 .. (Len(VariantNames) - 1)
        v == IF text THEN w.variant ELSE VariantNames[w.index + 1]
    IN \/ ~known
       \/ \E i \in DOMAIN FieldTypes(v) :
            IF text /\ IsStructVariant(v)
            THEN \/ ~\E j \in DOMAIN w.fields : w.fields[j].key = FieldNames(v)[i]
                 \/ \E j \in DOMAIN w.fields :
                        /\ w.fields[j].key = FieldNames(v)[i]
                        /\ ~WellTyped(FieldTypes(v)[i], w.fields[j].tok)
            ELSE \/ i > Len(w.fields)
                 \/ ~WellTyped(FieldTypes(v)[i], w.fields[i].tok)

Decoded == decoded # NoEvent

\* C2 as stated: the round trip succeeds and its result == the event written.
RoundTripEqual ==
    (Decoded /\ ntamper = 0) => (decoded.ok /\ decoded.eq)

\* C2 as amended: for an event none of whose float fields is NaN the round
\* trip succeeds and its result == the event written, in both kinds of format;
\* for an event with a NaN float field the result never == the event written.
RoundTripEqualUnlessNaN ==
    (Decoded /\ ntamper = 0) =>
        IF HasNaN(events["a"])
        THEN ~decoded.eq
        ELSE decoded.ok /\ decoded.eq

\* C2 witness: KeyPressed{W, 17} written as text and read back
KeyPressedRoundTrip ==
    /\ Decoded
    /\ ntamper = 0
    /\ wire.fmt = "text"
    /\ events["a"] = Build("KeyPressed", <<"W", U32(0, 17)>>)
    /\ decoded.ok
    /\ decoded.eq

\* C3: data with an unknown variant tag, or with a field of the claimed
\* variant absent or malformed, deserializes to an error and to no event.
MalformedRejected ==
    (Decoded /\ Malformed(wire)) => (~decoded.ok /\ decoded.val = NoEvent)

\* C3 witness: data with an unknown variant tag was refused
UnknownTagRefused ==
    /\ Decoded
    /\ wire.fmt = "text"
    /\ wire.variant = "Bogus"
    /\ ~decoded.ok

BindingVariants ==
    {v \in Variants :
        \E i \in DOMAIN FieldTypes(v) : FieldTypes(v)[i] \in BindingTypeNames}

\* equality, duplication and the round trip reach the binding value carried
BindingThreaded ==
    /\ Compared =>
        \A p \in DOMAIN cmp :
            LET x == events[p[1]]
                y == events[p[2]]
            IN (x.tag = y.tag /\ x.tag \in BindingVariants) =>
                (cmp[p] <=>
                    /\ heap[x[BindingField(x)]] = heap[y[BindingField(y)]]
                    /\ x.tag = "AxisMoved" =>
                        FieldValueEq("f64", x.value, y.value, heap))
    /\ (events["d"] # NoEvent /\ nmut = 0 /\ HasBinding(events["a"])) =>
        /\ events["d"].tag = events["a"].tag
        /\ heap[events["d"][BindingField(events["d"])]]
             = heap[events["a"][BindingField(events["a"])]]
    /\ (Decoded /\ ntamper = 0 /\ HasBinding(events["a"])) =>
        /\ decoded.ok
        /\ decoded.val.tag = events["a"].tag
        /\ heap[decoded.val[BindingField(decoded.val)]]
             = heap[events["a"][BindingField(events["a"])]]

\* C9 as stated: three variants carry a value of a binding-supplied type, and
\* equality, duplication and serialization thread through to it.
ThreeBindingVariantsThreaded ==
    Cardinality(BindingVariants) = 3 /\ BindingThreaded

\* C9 as amended: four variants carry a value of a binding-supplied type
\* (AxisMoved a T::Axis; ActionPressed, ActionReleased and ActionWheelMoved a
\* T::Action), and equality, duplication and serialization thread through to it.
FourBindingVariantsThreaded ==
    /\ BindingVariants =
        {"AxisMoved", "ActionPressed", "ActionReleased", "ActionWheelMoved"}
    /\ BindingThreaded

\* C9 witness: an AxisMoved event and its duplicate, which owns a value of its
\* own with the same data, compare equal
AxisMovedDuplicateCompared ==
    /\ Compared
    /\ scenario = "duplicate"
    /\ nmut = 0
    /\ events["a"].tag = "AxisMoved"
    /\ events["a"].value = "1.5"
    /\ events["d"].axis # events["a"].axis
    /\ cmp[<<"a", "d">>]

\* C10: == is symmetric and transitive on all events, and reflexive (e == e,
\* and clone(e) == e) on the events none of whose float fields is NaN; the
\* type implements PartialEq and none of Eq, Hash, PartialOrd, Ord.
PartialEquivalence ==
    /\ "PartialEq" \in DerivedTraits
    /\ DerivedTraits \cap {"Eq", "Hash", "PartialOrd", "Ord"} = {}
    /\ Compared =>
        /\ \A p \in DOMAIN cmp : cmp[p] = cmp[<<p[2], p[1]>>]
        /\ \A x, y, z \in ComparedSlots :
            (cmp[<<x, y>>] /\ cmp[<<y, z>>]) => cmp[<<x, z>>]
        /\ \A x \in ComparedSlots : ~HasNaN(events[x]) => cmp[<<x, x>>]
        /\ (events["d"] # NoEvent /\ nmut = 0 /\ ~HasNaN(events["a"])) =>
            (cmp[<<"a", "d">>] /\ cmp[<<"d", "a">>])

\* C10 witness: three CursorMoved events equal through 0.0 == -0.0, compared
ThreeEqualCompared ==
    /\ Compared
    /\ events["a"] = Build("CursorMoved", <<"0.0", "1.5">>)
    /\ events["b"] = Build("CursorMoved", <<"-0.0", "1.5">>)
    /\ events["c"] = Build("CursorMoved", <<"0.0", "1.5">>)
    /\ cmp[<<"a", "b">>]
    /\ cmp[<<"b", "c">>]
    /\ cmp[<<"a", "c">>]

====
